---- MODULE Spec2Model ----
(***************************************************************************)
(* Market-return enrichment of the news corpus                             *)
(* (scripts/03_add_market_stats.py) and the extraction of the corpus from  *)
(* the feed (scripts/02_get_content_data_flattened.py).                    *)
(*                                                                         *)
(* A DataFrame is a record [cols, rows]: the set of its column names and   *)
(* the sequence of its rows, each row a function from the column names.    *)
(* Dates are day numbers.  A return is an exact fraction <<num, den>> in   *)
(* lowest terms; NULL stands for pandas' null (None and NaN alike).        *)
(***************************************************************************)
EXTENDS Integers, Sequences, FiniteSets, TLC

(* ---------------------------------------------------------------- bounds *)
MaxRows == 2        \* rows of the input corpus
MaxHist == 7        \* entries of the longest price series of the provider
MaxEntries == 2     \* entries of the feed

(* ----------------------------------------------------- program constants *)
WindowBack   == 10  \* timedelta(days=10)
WindowAhead  == 1   \* timedelta(days=1)
WeeklyOffset == 5   \* date_idx >= 5, iloc[date_idx-5]
DailyOffset  == 1   \* date_idx > 0,  iloc[date_idx-1]
Benchmark    == "^GSPC"
Sentinel     == "multiple_tickers"
MAX_RETRIES  == 3   \* attempts of one llm() call
RETRY_DELAY  == 5   \* seconds slept after a failed attempt
Percent      == 100 \* x/100 of the growth conversion

market_cols == <<"weekly_return", "market_daily_return",
                 "market_weekly_return", "growth_above_market">>
MetricCols  == {market_cols[i] : i \in 1..Len(market_cols)}
BaseCols    == {"type", "end_date", "ticker"}

NULL == <<>>

(* ------------------------------------------------------------- fractions *)
Abs(x) == IF x < 0 THEN -x ELSE x

RECURSIVE Gcd(_, _)
Gcd(a, b) == IF b = 0 THEN a ELSE Gcd(b, a % b)

Norm(n, d) ==
    LET g == Gcd(Abs(n), Abs(d))
    IN  IF d < 0 THEN <<(-n) \div g, (-d) \div g>> ELSE <<n \div g, d \div g>>

\* (end_price - start_price) / start_price
PctChange(end_price, start_price) == Norm(end_price - start_price, start_price)

\* mutant: the operands exchanged
MinusSwapped(a, b) == Norm(b[1] * a[2] - a[1] * b[2], a[2] * b[2])

\* a - b on fractions
Minus(a, b) == Norm(a[1] * b[2] - b[1] * a[2], a[2] * b[2])

(* --------------------------------------------------- sequences and tables *)
RECURSIVE Flatten(_)
Flatten(ss) == IF ss = <<>> THEN <<>> ELSE Head(ss) \o Flatten(Tail(ss))

\* first occurrences, in order (Series.unique, DataFrame.drop_duplicates)
RECURSIVE UniqueSeq(_)
UniqueSeq(s) ==
    IF s = <<>> THEN <<>>
    ELSE LET h == UniqueSeq(SubSeq(s, 1, Len(s) - 1))
             l == s[Len(s)]
         IN  IF \E i \in 1..Len(h) : h[i] = l THEN h ELSE Append(h, l)

SeqRange(s) == {s[i] : i \in 1..Len(s)}

SetMin(S) == CHOOSE x \in S : \A y \in S : x <= y
SetMax(S) == CHOOSE x \in S : \A y \in S : x >= y

\* DataFrame(list of dicts): no rows, no columns
Frame(cols, rows) == [cols |-> IF rows = <<>> THEN {} ELSE cols, rows |-> rows]

EmptyFrame == [cols |-> {}, rows |-> <<>>]

\* df[[c1, c2, ...]] and df.drop(columns=...) on one row
Project(row, cols) == [c \in cols |-> row[c]]

\* Series.get(key): None when the key is absent
Get(series, key) == IF key \in DOMAIN series THEN series[key] ELSE NULL

(* ------------------------------------------------------- the environment *)
Symbols == {"AAA", Benchmark}
Dates   == {6, 7}

\* closing price of a symbol on a day
Close(sym, day) == IF sym = Benchmark THEN 100 + 3 * day ELSE 20 + day * day

\* a chronological series: n trading days from day `first`, the day `skip`
\* being a day without trading
RECURSIVE SeriesFrom(_, _, _, _)
SeriesFrom(sym, day, n, skip) ==
    IF n = 0 THEN <<>>
    ELSE IF day = skip THEN SeriesFrom(sym, day + 1, n, skip)
    ELSE <<[d |-> day, c |-> Close(sym, day)]>> \o SeriesFrom(sym, day + 1, n - 1, skip)

Shapes == {<<1, MaxHist, 0>>, <<1, MaxHist - 1, 6>>, <<3, MaxHist - 2, 0>>, <<7, 2, 0>>}

\* what the price provider does for a symbol: the call raises, or it
\* returns the symbol's series (possibly empty).  A symbol fetched twice in
\* one run is answered alike both times: all_history keeps an entry exactly
\* when some fetch of the symbol returned rows, and the rows are the same.
ProviderChoices(sym) ==
    {[ok |-> FALSE, series |-> <<>>], [ok |-> TRUE, series |-> <<>>]}
    \cup {[ok |-> TRUE, series |-> SeriesFrom(sym, s[1], s[2], s[3])] : s \in Shapes}

\* corpus rows: individual rows carry a symbol, market rows the sentinel or,
\* as the extraction may emit anything, a symbol
RowKinds ==
    [type : {"individual"}, end_date : Dates, ticker : Symbols]
    \cup [type : {"market_daily", "market_weekly"}, end_date : Dates,
          ticker : {Sentinel, "AAA"}]

Corpora == UNION {[1..k -> RowKinds] : k \in 0..MaxRows}

\* metric columns a corpus may carry from an earlier enrichment
StaleChoices == {{}, {"weekly_return"}, MetricCols}
StaleValue   == <<9, 1>>

InputFiles ==
    {[cols |-> BaseCols \cup s,
      rows |-> [i \in DOMAIN c |-> c[i] @@ [x \in s |-> StaleValue]]] :
        c \in Corpora, s \in StaleChoices}
    \cup {EmptyFrame}

(* --------------------------------------- the environment of the extraction *)
\* The text of an entry field, as far as the code looks at it: whether the
\* key is there, whether the string is empty, and the dates matched by
\* 'End date for the articles: (\d{4}-\d{2}-\d{2})' (p1) and by
\* 'before (\d{4}-\d{2}-\d{2})' (p2), 0 when the pattern does not occur.
\* Dates of the form YYYY-MM-DD compare as strings as their day numbers do.
Absent      == [present |-> FALSE, len |-> 0, p1 |-> 0, p2 |-> 0]
EmptyText   == [present |-> TRUE, len |-> 0, p1 |-> 0, p2 |-> 0]
Text(a, b)  == [present |-> TRUE, len |-> 1, p1 |-> a, p2 |-> b]

\* what the model puts into message.content once a call succeeds
NotJson           == [kind |-> "not_json", items |-> <<>>]
NoContentKey      == [kind |-> "no_content_key", items |-> <<>>]
ContentNotRecords == [kind |-> "content_not_records", items |-> <<>>]
Records(items)    == [kind |-> "records", items |-> items]

Individual(d, g) == [type |-> "individual", end_date |-> d, ticker |-> "AAA", growth |-> g]
MarketDaily(d)   == [type |-> "market_daily", end_date |-> d, ticker |-> Sentinel]

\* a feed entry: its three content keys, the number of leading attempts of
\* its extraction call that raise, and the answer of the first attempt
\* that does not
FeedEntry(tc, c, ds, fails, answer) ==
    [turbo_content |-> tc, content |-> c, description |-> ds,
     fails |-> fails, answer |-> answer]

Growth == <<617, 50>>     \* 12.34

EntryKinds ==
    {FeedEntry(Absent, Absent, Absent, 0, Records(<<MarketDaily(6)>>)),
     FeedEntry(EmptyText, Absent, Text(6, 0), 0, Records(<<Individual(6, Growth)>>)),
     FeedEntry(Text(0, 0), Absent, Absent, 0, Records(<<Individual(6, Growth)>>))}
    \cup {FeedEntry(Text(6, 0), Absent, Absent, o[1], o[2]) :
            o \in {<<0, Records(<<Individual(6, Growth)>>)>>,
                   <<1, Records(<<MarketDaily(6)>>)>>,
                   <<2, Records(<<Individual(6, NULL), MarketDaily(5)>>)>>,
                   <<MAX_RETRIES, NotJson>>,
                   <<0, NotJson>>,
                   <<0, NoContentKey>>,
                   <<1, ContentNotRecords>>}}
    \cup {FeedEntry(Absent, Text(0, 7), Absent, o[1], o[2]) :
            o \in {<<0, Records(<<MarketDaily(7)>>)>>,
                   <<1, Records(<<Individual(7, Growth), MarketDaily(6)>>)>>,
                   <<MAX_RETRIES, NotJson>>}}
    \cup {FeedEntry(Absent, Absent, Text(8, 6), o[1], o[2]) :
            o \in {<<0, Records(<<Individual(8, NULL)>>)>>,
                   <<2, Records(<<Individual(8, Growth), MarketDaily(7)>>)>>,
                   <<0, NotJson>>}}

Feeds == UNION {[1..k -> EntryKinds] : k \in 0..MaxEntries}

Modes == {"all", "last", "new"}

\* the file at output_file_path before the run: none, the column-less table
\* a run without records leaves, or a corpus of an earlier run
CorpusCols == {"type", "end_date", "ticker", "link"}

PriorFiles ==
    {<<>>,
     <<EmptyFrame>>,
     <<[cols |-> CorpusCols,
        rows |-> <<[type |-> "market_daily", end_date |-> 6, ticker |-> Sentinel,
                    link |-> 0]>>]>>,
     <<[cols |-> CorpusCols \cup {"growth_last_day"},
        rows |-> <<[type |-> "individual", end_date |-> 7, ticker |-> "AAA",
                    link |-> 0, growth_last_day |-> <<1, 50>>],
                   [type |-> "market_daily", end_date |-> 6, ticker |-> Sentinel,
                    link |-> 0, growth_last_day |-> NULL]>>]>>}

NoExc == [type |-> "none", line |-> 0]

VARIABLES
    infile,          \* the table at input_file_path
    provider,        \* per symbol, what the price provider answers
    pc,              \* position of the enrichment process
    df,              \* main's DataFrame
    fetchLog,        \* symbols passed to ticker_obj.history, in order
    all_history,     \* sequence of [ticker, hist]: the dict, in insertion order
    returns_df,      \* DataFrame(returns_data)
    market_metrics,  \* what calculate_market_metrics returned
    outfile,         \* <<>> or <<table at output_file_path>>
    exc,             \* the exception that ended main, if any
    exit_status,     \* -1 while the process runs
    runs,            \* enrichment runs started
    env_key,         \* OPENAI_API_KEY is set in the environment
    xpc,             \* position of the extraction process
    xexit,           \* its exit status, -1 while it runs
    feed,            \* feed.entries
    mode,            \* args.mode
    xfile,           \* <<>> or <<table at the extraction's output_file_path>>
    xprior,          \* xfile as the current extraction run found it
    entries,         \* the entries to process: [pos, end_date], pos into feed
    xi,              \* 1-based position of the extraction loop in entries
    attempt,         \* llm's loop variable for the entry being processed
    all_content,     \* the records collected so far
    calls,           \* per feed position, calls of llm made for the entry
    attempts,        \* per feed position, calls of the endpoint made
    slept,           \* per feed position, seconds slept by llm
    returned,        \* per feed position, "no", "None" or "response"
    new_df,          \* parse_feed_entries' DataFrame, then main's new_df
    xexc,            \* the exception that ended the extraction, if any
    xruns            \* extraction runs started

vars == <<infile, provider, pc, df, fetchLog, all_history, returns_df,
          market_metrics, outfile, exc, exit_status, runs, env_key, xpc, xexit,
          feed, mode, xfile, xprior, entries, xi, attempt, all_content, calls,
          attempts, slept, returned, new_df, xexc, xruns>>

enrichVars  == <<infile, provider, pc, df, fetchLog, all_history, returns_df,
                 market_metrics, outfile, exc, exit_status, runs>>
feedVars    == <<feed, mode, xfile, xprior, entries, xi, attempt, all_content,
                 calls, attempts, slept, returned, new_df, xexc, xruns>>
extractVars == <<env_key, xpc, xexit, feedVars>>

(* ----------------------------------------------- calculate_market_metrics *)
IndividualRows(frame) == SelectSeq(frame.rows, LAMBDA r : r["type"] = "individual")

Column(rows, c) == [i \in 1..Len(rows) |-> rows[i][c]]

\* tickers = df[df['type'] == 'individual']['ticker'].unique().tolist(); append('^GSPC')
Tickers(frame) == Append(UniqueSeq(Column(IndividualRows(frame), "ticker")), Benchmark)

UniqueDates(frame) == UniqueSeq(Column(frame.rows, "end_date"))

\* [start_date, end_date): NaT on an empty corpus
Window(frame) ==
    LET ds == SeqRange(Column(frame.rows, "end_date"))
    IN  IF ds = {} THEN [nat |-> TRUE, start |-> 0, end |-> 0]
        ELSE [nat |-> FALSE, start |-> SetMin(ds) - WindowBack,
              end |-> SetMax(ds) + WindowAhead]

\* ticker_obj.history(start, end): the entries of the window, end excluded;
\* a NaT window yields no data
History(prov, sym, w) ==
    IF w.nat \/ ~prov[sym].ok THEN <<>>
    ELSE SelectSeq(prov[sym].series, LAMBDA e : w.start <= e.d /\ e.d < w.end)

\* the download loop: a raising or empty fetch leaves no entry
Download(prov, frame) ==
    LET w    == Window(frame)
        syms == UniqueSeq(Tickers(frame))
        got  == SelectSeq(syms, LAMBDA s : History(prov, s, w) # <<>>)
    IN  [i \in 1..Len(got) |-> [ticker |-> got[i], hist |-> History(prov, got[i], w)]]

\* mutant: method='bfill', the first entry at or after date
BfillIndex(hist, date) ==
    IF \E i \in 1..Len(hist) : hist[i].d >= date
    THEN Cardinality({i \in 1..Len(hist) : hist[i].d < date})
    ELSE -1

\* get_indexer([date], method='ffill')[0]: 0-based position of the last
\* entry at or before date, -1 when there is none
FfillIndex(hist, date) == Cardinality({i \in 1..Len(hist) : hist[i].d <= date}) - 1

\* hist['Close'].iloc[k], k 0-based
Iloc(hist, k) == hist[k + 1].c

DailyReturn(hist, idx) ==
    IF idx > 0 THEN PctChange(Iloc(hist, idx), Iloc(hist, idx - DailyOffset)) ELSE NULL

\* mutant: a position with too little history falls back on the first entry
WeeklyReturnShort(hist, idx) ==
    IF idx >= WeeklyOffset
    THEN PctChange(Iloc(hist, idx), Iloc(hist, idx - WeeklyOffset))
    ELSE IF idx > 0 THEN PctChange(Iloc(hist, idx), Iloc(hist, 0)) ELSE NULL

WeeklyReturn(hist, idx) ==
    IF idx >= WeeklyOffset
    THEN PctChange(Iloc(hist, idx), Iloc(hist, idx - WeeklyOffset)) ELSE NULL

ReturnsRow(ticker, hist, date) ==
    LET idx == FfillIndex(hist, date)
    IN  [ticker |-> ticker, date |-> date,
         daily_return |-> DailyReturn(hist, idx),
         weekly_return |-> WeeklyReturn(hist, idx)]

\* returns_data: per ticker with history, per unique date with a position
ReturnsData(hists, dates) ==
    Flatten([i \in 1..Len(hists) |->
        LET h  == hists[i]
            ds == SelectSeq(dates, LAMBDA d :
                      FfillIndex(h.hist, d) >= 0 /\ FfillIndex(h.hist, d) < Len(h.hist))
        IN  [j \in 1..Len(ds) |-> ReturnsRow(h.ticker, h.hist, ds[j])]])

ReturnsCols == {"ticker", "date", "daily_return", "weekly_return"}

\* df[['end_date', 'ticker', 'type']].drop_duplicates()
UniqueCombinations(frame) ==
    UniqueSeq([i \in 1..Len(frame.rows) |->
                  Project(frame.rows[i], {"end_date", "ticker", "type"})])

\* returns_df[(date == d) & (ticker == t)], .iloc[0] or an empty Series
ReturnsOf(rdf, d, t) ==
    LET m == SelectSeq(rdf.rows, LAMBDA r : r.date = d /\ r.ticker = t)
    IN  IF m = <<>> THEN <<>> ELSE m[1]

MetricsKey(row) == IF row["type"] = "individual" THEN row["ticker"] ELSE Sentinel

MetricsCols == {"date", "ticker"} \cup MetricCols

\* mutant: a ticker without returns takes the market's weekly return
MetricsRowFallback(rdf, row) ==
    LET date        == row["end_date"]
        ticker      == MetricsKey(row)
        market_data == ReturnsOf(rdf, date, Benchmark)
        ticker_data == ReturnsOf(rdf, date, ticker)
        mweekly     == Get(market_data, "weekly_return")
        weekly      == IF ticker # Sentinel /\ ticker_data # <<>>
                       THEN Get(ticker_data, "weekly_return") ELSE mweekly
        growth      == IF ticker # Sentinel /\ weekly # NULL /\ mweekly # NULL
                       THEN Minus(weekly, mweekly) ELSE NULL
    IN  [date |-> date, ticker |-> ticker,
         weekly_return |-> weekly,
         market_daily_return |-> Get(market_data, "daily_return"),
         market_weekly_return |-> mweekly,
         growth_above_market |-> growth]

\* one market_metrics row, for one unique combination
MetricsRow(rdf, row) ==
    LET date        == row["end_date"]
        ticker      == MetricsKey(row)
        market_data == ReturnsOf(rdf, date, Benchmark)
        ticker_data == ReturnsOf(rdf, date, ticker)
        weekly      == IF ticker # Sentinel THEN Get(ticker_data, "weekly_return")
                       ELSE Get(market_data, "weekly_return")
        mweekly     == Get(market_data, "weekly_return")
        growth      == IF ticker # Sentinel /\ weekly # NULL /\ mweekly # NULL
                       THEN Minus(weekly, mweekly) ELSE NULL
    IN  [date |-> date, ticker |-> ticker,
         weekly_return |-> weekly,
         market_daily_return |-> Get(market_data, "daily_return"),
         market_weekly_return |-> mweekly,
         growth_above_market |-> growth]

MarketMetrics(rdf, frame) ==
    LET u == UniqueCombinations(frame)
    IN  Frame(MetricsCols, [i \in 1..Len(u) |-> MetricsRow(rdf, u[i])])

\* returns_df['date'] on a frame without columns: KeyError
LookupRaises(rdf, frame) == UniqueCombinations(frame) # <<>> /\ "date" \notin rdf.cols

(* -------------------------------------------------------------------- main *)
\* market_metrics[['date', 'ticker', <the four>]]
MetricsSubset(mm) ==
    [cols |-> MetricsCols, rows |-> [i \in 1..Len(mm.rows) |-> Project(mm.rows[i], MetricsCols)]]

\* df.drop(columns=[col for col in columns_to_drop if col in df.columns])
DropStale(frame) ==
    LET keep == frame.cols \ MetricCols
    IN  [cols |-> keep, rows |-> [i \in 1..Len(frame.rows) |-> Project(frame.rows[i], keep)]]

\* pandas' suffixes for a column that both sides of a merge carry
SuffixX == [c \in MetricsCols |->
               CASE c = "weekly_return"        -> "weekly_return_x"
                 [] c = "market_daily_return"  -> "market_daily_return_x"
                 [] c = "market_weekly_return" -> "market_weekly_return_x"
                 [] c = "growth_above_market"  -> "growth_above_market_x"
                 [] c = "date"                 -> "date_x"
                 [] OTHER                      -> c]
SuffixY == [c \in MetricsCols |->
               CASE c = "weekly_return"        -> "weekly_return_y"
                 [] c = "market_daily_return"  -> "market_daily_return_y"
                 [] c = "market_weekly_return" -> "market_weekly_return_y"
                 [] c = "growth_above_market"  -> "growth_above_market_y"
                 [] c = "date"                 -> "date_y"
                 [] OTHER                      -> c]

\* pd.merge(left, right, left_on=['end_date', 'ticker'],
\*          right_on=['date', 'ticker'], how='left')
MergeLeft(left, right) ==
    LET both   == left.cols \cap (right.cols \ {"ticker"})
        lname  == [c \in left.cols |-> IF c \in both THEN SuffixX[c] ELSE c]
        rcols  == right.cols \ {"ticker"}
        rname  == [c \in rcols |-> IF c \in both THEN SuffixY[c] ELSE c]
        lcols  == {lname[c] : c \in left.cols}
        ycols  == {rname[c] : c \in rcols}
        lpart(l) == [n \in lcols |-> l[CHOOSE c \in left.cols : lname[c] = n]]
        rpart(r) == [n \in ycols |-> r[CHOOSE c \in rcols : rname[c] = n]]
        nomatch  == [n \in ycols |-> NULL]
        rowsOf(l) ==
            LET m == SelectSeq(right.rows,
                               LAMBDA r : r["date"] = l["end_date"] /\ r["ticker"] = l["ticker"])
            IN  IF m = <<>> THEN <<lpart(l) @@ nomatch>>
                ELSE [j \in 1..Len(m) |-> lpart(l) @@ rpart(m[j])]
    IN  [cols |-> lcols \cup ycols,
         rows |-> Flatten([i \in 1..Len(left.rows) |-> rowsOf(left.rows[i])])]

\* .drop('date', axis=1)
DropDate(frame) ==
    LET keep == frame.cols \ {"date"}
    IN  [cols |-> keep, rows |-> [i \in 1..Len(frame.rows) |-> Project(frame.rows[i], keep)]]

\* mutant: any(...) in place of all(...)
GateAny(frame) == \E i \in 1..Len(market_cols) : market_cols[i] \in frame.cols

\* all(col in df.columns for col in market_cols)
GateOk(frame) == \A i \in 1..Len(market_cols) : market_cols[i] \in frame.cols

Raise(type, line) ==
    /\ pc' = "raised"
    /\ exc' = [type |-> type, line |-> line]

\* main up to and including the call of calculate_market_metrics
MainCalculate ==
    /\ pc = "start"
    /\ df' = infile
    /\ IF "end_date" \notin infile.cols
       THEN /\ Raise("KeyError", 141)
            /\ UNCHANGED <<fetchLog, all_history, returns_df, market_metrics>>
       ELSE LET hs  == Download(provider, infile)
                rdf == Frame(ReturnsCols, ReturnsData(hs, UniqueDates(infile)))
            IN  /\ fetchLog' = Tickers(infile)
                /\ all_history' = hs
                /\ returns_df' = rdf
                /\ IF LookupRaises(rdf, infile)
                   THEN /\ Raise("KeyError", 99)
                        /\ UNCHANGED market_metrics
                   ELSE /\ market_metrics' = MarketMetrics(rdf, infile)
                        /\ pc' = "calculated"
                        /\ UNCHANGED exc
    /\ UNCHANGED <<infile, provider, outfile, exit_status, runs>>
    /\ UNCHANGED extractVars

\* main from the return of calculate_market_metrics to the merged DataFrame
MainMerge ==
    /\ pc = "calculated"
    /\ IF "date" \notin market_metrics.cols
       THEN /\ Raise("KeyError", 154)
            /\ UNCHANGED df
       ELSE LET merged == MergeLeft(DropStale(df), MetricsSubset(market_metrics))
            IN  IF "date" \notin merged.cols
                THEN /\ Raise("KeyError", 199)
                     /\ UNCHANGED df
                ELSE /\ df' = DropDate(merged)
                     /\ pc' = "merged"
                     /\ UNCHANGED exc
    /\ UNCHANGED <<infile, provider, fetchLog, all_history, returns_df,
                   market_metrics, outfile, exit_status, runs>>
    /\ UNCHANGED extractVars

\* the verification of the metric columns and the save
MainVerifySave ==
    /\ pc = "merged"
    /\ IF GateOk(df)
       THEN /\ outfile' = <<df>>
            /\ pc' = "saved"
            /\ UNCHANGED exc
       ELSE /\ Raise("ValueError", 226)
            /\ UNCHANGED outfile
    /\ UNCHANGED <<infile, provider, df, fetchLog, all_history, returns_df,
                   market_metrics, exit_status, runs>>
    /\ UNCHANGED extractVars

\* the __main__ guard: any exception of main is printed and logged, and the
\* interpreter ends normally
MainGuard ==
    /\ pc \in {"saved", "raised"}
    /\ pc' = "exit"
    /\ exit_status' = 0
    /\ UNCHANGED <<infile, provider, df, fetchLog, all_history, returns_df,
                   market_metrics, outfile, exc, runs>>
    /\ UNCHANGED extractVars

\* the script is run again, on the table the last run saved
RerunOnOutput ==
    /\ pc = "exit"
    /\ outfile # <<>>
    /\ exc = NoExc
    /\ runs < 2
    /\ infile' = outfile[1]
    /\ runs' = runs + 1
    /\ pc' = "start"
    /\ exit_status' = -1
    /\ df' = EmptyFrame
    /\ fetchLog' = <<>>
    /\ all_history' = <<>>
    /\ returns_df' = EmptyFrame
    /\ market_metrics' = EmptyFrame
    /\ UNCHANGED <<provider, outfile, exc>>
    /\ UNCHANGED extractVars

(* ------------------------------------------------- the extraction script *)
\* load_dotenv(); the module-level check of OPENAI_API_KEY: an uncaught
\* ValueError ends the interpreter with status 1 before main is entered
ExtractImport ==
    /\ xpc = "import"
    /\ IF env_key
       THEN /\ xpc' = "main"
            /\ UNCHANGED xexit
       ELSE /\ xpc' = "exit"
            /\ xexit' = 1
    /\ UNCHANGED env_key
    /\ UNCHANGED feedVars
    /\ UNCHANGED enrichVars

(* ------------------------------------------------------ parse_feed_entries *)
\* the value of the first content key the entry has, None without any
ContentOf(entry) ==
    IF entry.turbo_content.present THEN entry.turbo_content
    ELSE IF entry.content.present THEN entry.content
    ELSE IF entry.description.present THEN entry.description
    ELSE Absent

\* `if content:`
Truthy(text) == text.present /\ text.len > 0

\* match1.group(1) if match1, else match2.group(1) if match2, else None (0)
EndDateOf(text) ==
    IF text.p1 # 0 THEN text.p1 ELSE IF text.p2 # 0 THEN text.p2 ELSE 0

\* all_entries_data before the sort: the entries with content and a date
AllEntriesData(fd) ==
    SelectSeq([i \in 1..Len(fd) |-> [pos |-> i, end_date |-> EndDateOf(ContentOf(fd[i]))]],
              LAMBDA x : Truthy(ContentOf(fd[x.pos])) /\ x.end_date # 0)

\* mutant: sort(key=..., reverse=False)
RECURSIVE SortOldestFirst(_)
SortOldestFirst(s) ==
    IF s = <<>> THEN <<>>
    ELSE LET x    == s[Len(s)]
             init == SortOldestFirst(SubSeq(s, 1, Len(s) - 1))
         IN  SelectSeq(init, LAMBDA e : e.end_date <= x.end_date) \o <<x>>
                \o SelectSeq(init, LAMBDA e : e.end_date > x.end_date)

\* all_entries_data.sort(key=lambda x: x[1], reverse=True): stable
RECURSIVE SortNewestFirst(_)
SortNewestFirst(s) ==
    IF s = <<>> THEN <<>>
    ELSE LET x    == s[Len(s)]
             init == SortNewestFirst(SubSeq(s, 1, Len(s) - 1))
         IN  SelectSeq(init, LAMBDA e : e.end_date >= x.end_date) \o <<x>>
                \o SelectSeq(init, LAMBDA e : e.end_date < x.end_date)

\* the entries to process, by mode
SelectEntries(m, data) == IF m = "last" /\ data # <<>> THEN <<data[1]>> ELSE data

\* mutant: the delay is slept after the last failed attempt as well
ShouldRetryAlways(k) == k < MAX_RETRIES

\* `if attempt < MAX_RETRIES - 1`
ShouldRetry(k) == k < MAX_RETRIES - 1

\* json.loads and the loop over data["content"]: the records an answer
\* gives, each with the entry's link; none when the answer is not JSON, has
\* no "content" key, or its "content" does not hold dicts
Extracted(answer, link) ==
    IF answer.kind = "records"
    THEN [i \in 1..Len(answer.items) |-> ("link" :> link) @@ answer.items[i]]
    ELSE <<>>

\* pd.DataFrame(list of dicts): the union of the keys, null where absent
DataFrame(items) ==
    LET cols == UNION {DOMAIN items[i] : i \in 1..Len(items)}
    IN  [cols |-> cols,
         rows |-> [i \in 1..Len(items) |-> [c \in cols |-> Get(items[i], c)]]]

\* mutant: the percentage is kept as it is
GrowthLastDayRaw(x) == x

\* lambda x: x/100 if pd.notnull(x) else x
GrowthLastDay(x) == IF x # NULL THEN Norm(x[1], x[2] * Percent) ELSE x

\* the growth column becomes growth_last_day
ConvertGrowth(frame) ==
    IF "growth" \notin frame.cols THEN frame
    ELSE LET cols == (frame.cols \ {"growth"}) \cup {"growth_last_day"}
         IN  [cols |-> cols,
              rows |-> [i \in 1..Len(frame.rows) |->
                          [c \in cols |-> IF c = "growth_last_day"
                                          THEN GrowthLastDay(frame.rows[i]["growth"])
                                          ELSE frame.rows[i][c]]]]

(* ------------------------------------------------ main of the extraction *)
\* mutant: rows dated like the latest prior row are appended again
NotOlderThan(frame, latest) ==
    [cols |-> frame.cols,
     rows |-> SelectSeq(frame.rows, LAMBDA r : r["end_date"] >= latest)]

\* new_df[new_df['end_date'] > latest_existing_date]
NewerThan(frame, latest) ==
    [cols |-> frame.cols,
     rows |-> SelectSeq(frame.rows, LAMBDA r : r["end_date"] > latest)]

\* existing_df['end_date'].max()
LatestDate(frame) == SetMax(SeqRange(Column(frame.rows, "end_date")))

\* pd.concat([a, b], ignore_index=True)
Concat(a, b) ==
    LET cols == a.cols \cup b.cols
        rows == a.rows \o b.rows
    IN  [cols |-> cols,
         rows |-> [i \in 1..Len(rows) |-> [c \in cols |-> Get(rows[i], c)]]]

NoCalls(fd) == [i \in 1..Len(fd) |-> 0]

\* main up to the extraction loop of parse_feed_entries: the feed is
\* scanned for dates, sorted and cut down by the mode
ParseFeed ==
    /\ xpc = "main"
    /\ entries' = SelectEntries(mode, SortNewestFirst(AllEntriesData(feed)))
    /\ xi' = 1
    /\ attempt' = 0
    /\ all_content' = <<>>
    /\ xpc' = "loop"
    /\ UNCHANGED <<env_key, xexit, feed, mode, xfile, xprior, calls, attempts,
                   slept, returned, new_df, xexc, xruns>>
    /\ UNCHANGED enrichVars

\* one call of client.chat.completions.create for the entry at xi, and what
\* follows it up to the next call: the sleep and the next attempt, or the
\* return of llm and the handling of its result
LlmAttempt ==
    /\ xpc = "loop"
    /\ xi <= Len(entries)
    /\ LET pos   == entries[xi].pos
           entry == feed[pos]
       IN  IF ~Truthy(ContentOf(entry))
           THEN /\ xi' = xi + 1
                /\ UNCHANGED <<attempt, all_content, calls, attempts, slept, returned>>
           ELSE /\ calls' = [calls EXCEPT ![pos] = @ + (IF attempt = 0 THEN 1 ELSE 0)]
                /\ attempts' = [attempts EXCEPT ![pos] = @ + 1]
                /\ IF attempt < entry.fails
                   THEN /\ slept' = [slept EXCEPT ![pos] =
                                        @ + (IF ShouldRetry(attempt) THEN RETRY_DELAY ELSE 0)]
                        /\ IF ShouldRetry(attempt) /\ attempt + 1 < MAX_RETRIES
                           THEN /\ attempt' = attempt + 1
                                /\ UNCHANGED <<xi, returned>>
                           ELSE /\ returned' = [returned EXCEPT ![pos] = "None"]
                                /\ xi' = xi + 1
                                /\ attempt' = 0
                        /\ UNCHANGED all_content
                   ELSE /\ returned' = [returned EXCEPT ![pos] = "response"]
                        /\ all_content' = all_content \o Extracted(entry.answer, pos)
                        /\ xi' = xi + 1
                        /\ attempt' = 0
                        /\ UNCHANGED slept
    /\ UNCHANGED <<env_key, xpc, xexit, feed, mode, xfile, xprior, entries,
                   new_df, xexc, xruns>>
    /\ UNCHANGED enrichVars

\* the end of parse_feed_entries: the DataFrame and the growth conversion
BuildFrame ==
    /\ xpc = "loop"
    /\ xi > Len(entries)
    /\ new_df' = ConvertGrowth(DataFrame(all_content))
    /\ xpc' = "built"
    /\ UNCHANGED <<env_key, xexit, feed, mode, xfile, xprior, entries, xi, attempt,
                   all_content, calls, attempts, slept, returned, xexc, xruns>>
    /\ UNCHANGED enrichVars

XRaise(type, line) ==
    /\ xexc' = [type |-> type, line |-> line]
    /\ xexit' = 1
    /\ UNCHANGED <<new_df, xfile>>

\* main after parse_feed_entries: in mode new the rows newer than the
\* existing file's latest date are put behind the existing rows; the result
\* is written.  main is called without a guard: an exception ends the
\* interpreter with status 1.
MainPersist ==
    /\ xpc = "built"
    /\ xpc' = "exit"
    /\ IF mode = "new" /\ xfile # <<>>
       THEN IF "end_date" \notin xfile[1].cols THEN XRaise("KeyError", 331)
            ELSE IF "end_date" \notin new_df.cols THEN XRaise("KeyError", 335)
            ELSE /\ new_df' = Concat(xfile[1], NewerThan(new_df, LatestDate(xfile[1])))
                 /\ xfile' = <<new_df'>>
                 /\ xexit' = 0
                 /\ UNCHANGED xexc
       ELSE /\ xfile' = <<new_df>>
            /\ xexit' = 0
            /\ UNCHANGED <<new_df, xexc>>
    /\ UNCHANGED <<env_key, feed, mode, xprior, entries, xi, attempt, all_content,
                   calls, attempts, slept, returned, xruns>>
    /\ UNCHANGED enrichVars

\* the script is run in mode new a second time: the same feed, the same
\* answers of the model, the file the first run left
RunNewAgain ==
    /\ xpc = "exit"
    /\ xexit = 0
    /\ mode = "new"
    /\ xruns < 2
    /\ xruns' = xruns + 1
    /\ xprior' = xfile
    /\ xpc' = "main"
    /\ xexit' = -1
    /\ entries' = <<>>
    /\ xi' = 1
    /\ attempt' = 0
    /\ all_content' = <<>>
    /\ calls' = NoCalls(feed)
    /\ attempts' = NoCalls(feed)
    /\ slept' = NoCalls(feed)
    /\ returned' = [i \in 1..Len(feed) |-> "no"]
    /\ new_df' = EmptyFrame
    /\ UNCHANGED <<env_key, feed, mode, xfile, xexc>>
    /\ UNCHANGED enrichVars

(* --------------------------------------------------------- specifications *)
\* the extraction before its first statement
FeedFresh ==
    /\ xprior = xfile
    /\ entries = <<>>
    /\ xi = 1
    /\ attempt = 0
    /\ all_content = <<>>
    /\ calls = NoCalls(feed)
    /\ attempts = NoCalls(feed)
    /\ slept = NoCalls(feed)
    /\ returned = [i \in 1..Len(feed) |-> "no"]
    /\ new_df = EmptyFrame
    /\ xexc = NoExc
    /\ xruns = 1

\* no feed, no file of the extraction
NoFeed ==
    /\ feed = <<>>
    /\ mode = "all"
    /\ xfile = <<>>
    /\ FeedFresh

Fresh ==
    /\ df = EmptyFrame
    /\ fetchLog = <<>>
    /\ all_history = <<>>
    /\ returns_df = EmptyFrame
    /\ market_metrics = EmptyFrame
    /\ outfile = <<>>
    /\ exc = NoExc
    /\ exit_status = -1
    /\ runs = 1

\* an enrichment run on any corpus against any provider
Init ==
    /\ infile \in InputFiles
    /\ provider \in [Symbols -> UNION {ProviderChoices(s) : s \in Symbols}]
    /\ \A s \in Symbols : provider[s] \in ProviderChoices(s)
    /\ pc = "start"
    /\ Fresh
    /\ env_key = TRUE
    /\ xpc = "off"
    /\ xexit = -1
    /\ NoFeed

Next ==
    \/ MainCalculate
    \/ MainMerge
    \/ MainVerifySave
    \/ MainGuard
    \/ RerunOnOutput

Spec == Init /\ [][Next]_vars

(* The verification step and the __main__ guard take whatever DataFrame    *)
(* the merge left in df, and the extraction script starts in whatever      *)
(* environment it is given: SpecFatal runs the two fatal paths on every    *)
(* set of metric columns and with and without the credential.              *)
GateFrames ==
    {[cols |-> BaseCols \cup s,
      rows |-> [i \in DOMAIN c |-> c[i] @@ [x \in s |-> NULL]]] :
        c \in UNION {[1..k -> RowKinds] : k \in 0..1}, s \in SUBSET MetricCols}

InitFatal ==
    /\ infile = EmptyFrame
    /\ provider = [s \in Symbols |-> [ok |-> FALSE, series |-> <<>>]]
    /\ pc = "merged"
    /\ df \in GateFrames
    /\ fetchLog = <<>>
    /\ all_history = <<>>
    /\ returns_df = EmptyFrame
    /\ market_metrics = EmptyFrame
    /\ outfile = <<>>
    /\ exc = NoExc
    /\ exit_status = -1
    /\ runs = 1
    /\ env_key \in BOOLEAN
    /\ xpc = "import"
    /\ xexit = -1
    /\ NoFeed

NextFatal ==
    \/ MainVerifySave
    \/ MainGuard
    \/ ExtractImport

SpecFatal == InitFatal /\ [][NextFatal]_vars

(* An extraction run in any mode, on any feed, whatever the model answers   *)
(* and whatever file an earlier run left; no enrichment runs.               *)
InitFeed ==
    /\ infile = EmptyFrame
    /\ provider = [s \in Symbols |-> [ok |-> FALSE, series |-> <<>>]]
    /\ pc = "off"
    /\ Fresh
    /\ env_key \in BOOLEAN
    /\ xpc = "import"
    /\ xexit = -1
    /\ feed \in Feeds
    /\ mode \in Modes
    /\ xfile \in PriorFiles
    /\ FeedFresh

NextFeed ==
    \/ ExtractImport
    \/ ParseFeed
    \/ LlmAttempt
    \/ BuildFrame
    \/ MainPersist
    \/ RunNewAgain

SpecFeed == InitFeed /\ [][NextFeed]_vars

(* ------------------------------------------------ vocabulary of the claims *)
\* df holds the merged table of the current run
Merged == pc \in {"merged", "saved"} \/ (pc = "exit" /\ exc = NoExc)

HasHistory(t) == \E i \in 1..Len(all_history) : all_history[i].ticker = t

HistOf(t) == all_history[CHOOSE i \in 1..Len(all_history) : all_history[i].ticker = t].hist

\* the entries of a series dated at or before a date
Past(hist, date) == SelectSeq(hist, LAMBDA e : e.d <= date)

\* the k-entry return at the end of a series, NULL when it is too short
TrailingReturn(hist, k) ==
    IF Len(hist) <= k THEN NULL
    ELSE Norm(hist[Len(hist)].c - hist[Len(hist) - k].c, hist[Len(hist) - k].c)

\* the k-entry return of a symbol as of a date, from its fetched history
RefReturn(t, date, k) ==
    IF ~HasHistory(t) THEN NULL ELSE TrailingReturn(Past(HistOf(t), date), k)

Suffixed == {SuffixX[c] : c \in MetricCols} \cup {SuffixY[c] : c \in MetricCols}

(* ------------------------------------------------------------------ claims *)

\* C1: the enriched corpus is written only if all four metric columns are
\* in the merged table; if one is absent the run raises and writes nothing.
C1_SaveOnlyWithAllMetricColumns ==
    /\ outfile # <<>> => (MetricCols \subseteq outfile[1].cols /\ outfile[1] = df)
    /\ (pc \in {"saved", "raised", "exit"} /\ ~(MetricCols \subseteq df.cols))
          => (exc.type = "ValueError" /\ outfile = <<>>)

C1_Witness ==
    /\ pc = "raised"
    /\ exc.type = "ValueError"
    /\ outfile = <<>>
    /\ "weekly_return" \in df.cols
    /\ "growth_above_market" \notin df.cols

C3_FailedTickerAllMetricsNull ==
    Merged =>
        \A i \in 1..Len(df.rows), j \in 1..Len(df.rows) :
            (df.rows[i]["type"] = "individual"
             /\ ~HasHistory(df.rows[i]["ticker"])
             /\ df.rows[j]["ticker"] = df.rows[i]["ticker"])
                => \A c \in MetricCols : df.rows[j][c] = NULL

\* C3, amended: every individual row of a ticker without fetched history
\* has null weekly_return and growth_above_market; its market_daily_return
\* and market_weekly_return are the benchmark's returns as of the row's
\* end_date, null only when the benchmark has none.
C3_FailedTickerOwnMetricsNull ==
    Merged =>
        \A i \in 1..Len(df.rows) :
            (df.rows[i]["type"] = "individual" /\ ~HasHistory(df.rows[i]["ticker"]))
                => /\ df.rows[i]["weekly_return"] = NULL
                   /\ df.rows[i]["growth_above_market"] = NULL
                   /\ df.rows[i]["market_daily_return"]
                        = RefReturn(Benchmark, df.rows[i]["end_date"], 1)
                   /\ df.rows[i]["market_weekly_return"]
                        = RefReturn(Benchmark, df.rows[i]["end_date"], 5)

C3_Witness ==
    /\ Merged
    /\ \E i \in 1..Len(df.rows) :
          /\ df.rows[i]["type"] = "individual"
          /\ ~HasHistory(df.rows[i]["ticker"])
          /\ ~provider[df.rows[i]["ticker"]].ok
          /\ df.rows[i]["market_weekly_return"] # NULL
          /\ df.rows[i]["weekly_return"] = NULL

\* C4: a fetch that fails or returns no rows, for one or more tickers,
\* never aborts the run: the metrics table is returned and the enriched
\* corpus is merged and persisted.
C4_FetchFailureNeverAborts ==
    (/\ infile.rows # <<>>
     /\ pc # "start"
     /\ \E i \in 1..Len(fetchLog) : ~HasHistory(fetchLog[i]))
        => /\ exc = NoExc
           /\ pc = "exit" => outfile = <<df>>

\* C5: the metrics table has at most one row per (date, ticker) key.
C5_OneMetricsRowPerKey ==
    \A i \in 1..Len(market_metrics.rows), j \in 1..Len(market_metrics.rows) :
        (/\ market_metrics.rows[i]["date"] = market_metrics.rows[j]["date"]
         /\ market_metrics.rows[i]["ticker"] = market_metrics.rows[j]["ticker"])
            => i = j

\* C6: the merged output is the corpus, row for row, with the metric fields
\* added: same row count, no row dropped, none repeated.
C6_MergeKeepsEveryRowOnce ==
    Merged =>
        /\ Len(df.rows) = Len(infile.rows)
        /\ [i \in 1..Len(df.rows) |-> Project(df.rows[i], infile.cols \ MetricCols)]
              = DropStale(infile).rows

\* C7: for any corpus, an empty one included, the merge section of main
\* ends with a table holding each of the four metric columns exactly once.
C7_MergedHasEachMetricColumnOnce ==
    (Merged \/ (pc \in {"raised", "exit"} /\ exc.line \in {154, 199}))
        => /\ MetricCols \subseteq df.cols
           /\ df.cols \cap (Suffixed \ MetricsCols) = {}

\* C8: the enrichment applied to its own output, with the same price data,
\* yields that output again.
C8_RerunYieldsSameTable ==
    (runs = 2 /\ pc \in {"saved", "raised", "exit"})
        => /\ exc = NoExc
           /\ outfile = <<infile>>

\* C9: weekly_return is null whenever the position located for the date
\* has fewer than 5 earlier entries in the fetched series, daily_return
\* whenever it has none; a return that is given spans exactly 5 (1) entries.
C9_NoShorterWindow ==
    \A i \in 1..Len(returns_df.rows) :
        LET r == returns_df.rows[i]
            h == HistOf(r.ticker)
            n == Cardinality({k \in 1..Len(h) : h[k].d <= r.date})
        IN  /\ n - 1 < 5 => r.weekly_return = NULL
            /\ n - 1 < 1 => r.daily_return = NULL
            /\ r.weekly_return # NULL
                  => r.weekly_return = Norm(h[n].c - h[n - 5].c, h[n - 5].c)
            /\ r.daily_return # NULL
                  => r.daily_return = Norm(h[n].c - h[n - 1].c, h[n - 1].c)

C9_Witness ==
    \E i \in 1..Len(returns_df.rows) :
        /\ returns_df.rows[i].weekly_return = NULL
        /\ returns_df.rows[i].daily_return # NULL
        /\ Len(HistOf(returns_df.rows[i].ticker)) > 5

\* C10: the returns of a (ticker, date) pair are those of the series cut
\* off after the date, so no entry dated after the date is used; a pair
\* whose series has no entry at or before the date gets no return row and
\* null metrics.
C10_PointInTime ==
    /\ \A i \in 1..Len(returns_df.rows) :
          LET r    == returns_df.rows[i]
              past == Past(HistOf(r.ticker), r.date)
          IN  /\ past # <<>>
              /\ r.daily_return = TrailingReturn(past, 1)
              /\ r.weekly_return = TrailingReturn(past, 5)
    /\ \A k \in 1..Len(all_history), d \in SeqRange(UniqueDates(df)) :
          Past(all_history[k].hist, d) = <<>>
              => /\ ~\E i \in 1..Len(returns_df.rows) :
                        /\ returns_df.rows[i].ticker = all_history[k].ticker
                        /\ returns_df.rows[i].date = d
                 /\ Merged =>
                       \A i \in 1..Len(df.rows) :
                           (/\ df.rows[i]["type"] = "individual"
                            /\ df.rows[i]["ticker"] = all_history[k].ticker
                            /\ df.rows[i]["end_date"] = d)
                               => /\ df.rows[i]["weekly_return"] = NULL
                                  /\ df.rows[i]["growth_above_market"] = NULL

C10_Witness ==
    /\ Merged
    /\ \E i \in 1..Len(returns_df.rows) :
          LET r == returns_df.rows[i]
              h == HistOf(r.ticker)
          IN  /\ r.weekly_return # NULL
              /\ \E k \in 1..Len(h) : h[k].d > r.date
    /\ \E k \in 1..Len(all_history), i \in 1..Len(df.rows) :
          /\ Past(all_history[k].hist, df.rows[i]["end_date"]) = <<>>
          /\ df.rows[i]["ticker"] = all_history[k].ticker
          /\ df.rows[i]["type"] = "individual"

\* x = a - b on fractions <<numerator, denominator>>, by cross-multiplication
IsDifference(x, a, b) == x[1] * a[2] * b[2] = x[2] * (a[1] * b[2] - b[1] * a[2])

\* C11: every individual row whose ticker and the benchmark both have a
\* 5-entry return as of the row's end_date carries the ticker's return as
\* weekly_return, the benchmark's as market_weekly_return and their
\* difference as growth_above_market; when either return is missing,
\* growth_above_market is null.
C11_IndividualRowMetrics ==
    Merged =>
        \A i \in 1..Len(df.rows) :
            df.rows[i]["type"] = "individual" =>
                LET w  == RefReturn(df.rows[i]["ticker"], df.rows[i]["end_date"], 5)
                    mw == RefReturn(Benchmark, df.rows[i]["end_date"], 5)
                    g  == df.rows[i]["growth_above_market"]
                IN  /\ (w # NULL /\ mw # NULL)
                          => /\ df.rows[i]["weekly_return"] = w
                             /\ df.rows[i]["market_weekly_return"] = mw
                             /\ g # NULL
                             /\ IsDifference(g, w, mw)
                    /\ (w = NULL \/ mw = NULL) => g = NULL

C11_Witness ==
    /\ Merged
    /\ \E i \in 1..Len(df.rows), j \in 1..Len(df.rows) :
          /\ df.rows[i]["type"] = "individual"
          /\ df.rows[i]["ticker"] = "AAA"
          /\ df.rows[i]["growth_above_market"] \notin {NULL, <<0, 1>>}
          /\ df.rows[j]["type"] = "individual"
          /\ df.rows[j]["market_weekly_return"] # NULL
          /\ df.rows[j]["weekly_return"] = NULL
          /\ df.rows[j]["growth_above_market"] = NULL

\* C12: every row that is not of type individual, whatever ticker it
\* carries, has the benchmark's returns as of its end_date in
\* weekly_return, market_daily_return and market_weekly_return, and a null
\* growth_above_market.
C12_MarketRowsTakeBenchmark ==
    Merged =>
        \A i \in 1..Len(df.rows) :
            df.rows[i]["type"] # "individual" =>
                /\ df.rows[i]["weekly_return"]
                      = RefReturn(Benchmark, df.rows[i]["end_date"], 5)
                /\ df.rows[i]["market_weekly_return"]
                      = RefReturn(Benchmark, df.rows[i]["end_date"], 5)
                /\ df.rows[i]["market_daily_return"]
                      = RefReturn(Benchmark, df.rows[i]["end_date"], 1)
                /\ df.rows[i]["growth_above_market"] = NULL

\* the calls of ticker_obj.history made for a symbol in the current run
FetchesOf(t) == {i \in 1..Len(fetchLog) : fetchLog[i] = t}

\* C18: a price-history fetch that fails is made again for the same symbol
\* before the symbol is given up, while the other symbols are still fetched.
C18_FailedFetchIsRetried ==
    (pc # "start" /\ exc.line # 141) =>
        \A t \in Symbols :
            (FetchesOf(t) # {} /\ ~provider[t].ok)
                => /\ \E i \in FetchesOf(t) : i + 1 \in FetchesOf(t)
                   /\ FetchesOf(Benchmark) # {}
                   /\ \A i \in 1..Len(infile.rows) :
                         infile.rows[i]["type"] = "individual"
                            => FetchesOf(infile.rows[i]["ticker"]) # {}

\* C20: the run fetches every symbol of the set {individual tickers of the
\* corpus} \cup {benchmark} exactly once, also when the benchmark occurs in
\* the corpus as an individual ticker.
C20_OneFetchPerSymbol ==
    (pc # "start" /\ exc.line # 141) =>
        LET wanted == {infile.rows[i]["ticker"] :
                          i \in {k \in 1..Len(infile.rows) :
                                    infile.rows[k]["type"] = "individual"}}
                      \cup {Benchmark}
        IN  /\ SeqRange(fetchLog) = wanted
            /\ \A t \in wanted : Cardinality(FetchesOf(t)) = 1

(* ------------------------------------ vocabulary of the extraction claims *)
\* parse_feed_entries has returned in the current run
Parsed == xpc \in {"built", "exit"} /\ env_key

\* the entry has a non-empty turbo_content, content or description
Extractable(entry) ==
    \E t \in {entry.turbo_content, entry.content, entry.description} :
        t.present /\ t.len > 0

\* the end date embedded in the entry's content, 0 without one
EmbeddedDate(entry) == EndDateOf(ContentOf(entry))

\* the entry's extraction gave nothing: llm gave up, or its answer is not
\* JSON with a list of records under "content"
Failed(pos) ==
    \/ returned[pos] = "None"
    \/ returned[pos] = "response" /\ feed[pos].answer.kind # "records"

RecordsOf(pos) == {k \in 1..Len(all_content) : all_content[k]["link"] = pos}

HasRows(file) == file # <<>> /\ file[1].rows # <<>>

\* C13: in mode all, parse_feed_entries calls llm exactly once for every
\* feed entry with a non-empty turbo_content, content or description, and
\* not at all for the other entries.
C13_OneCallPerContentEntry ==
    (mode = "all" /\ Parsed) =>
        \A i \in 1..Len(feed) :
            calls[i] = IF Extractable(feed[i]) THEN 1 ELSE 0

\* C14: in mode last, on a feed whose entries carry pairwise distinct
\* embedded end dates, exactly one entry is processed, the one with the
\* greatest embedded end date, wherever it stands in the feed.
C14_LastTakesNewest ==
    (/\ mode = "last"
     /\ Parsed
     /\ feed # <<>>
     /\ \A i \in 1..Len(feed) : EmbeddedDate(feed[i]) # 0
     /\ \A i, j \in 1..Len(feed) :
           EmbeddedDate(feed[i]) = EmbeddedDate(feed[j]) => i = j)
        => \E i \in 1..Len(feed) :
              /\ \A j \in 1..Len(feed) : EmbeddedDate(feed[j]) <= EmbeddedDate(feed[i])
              /\ calls[i] = 1
              /\ \A j \in 1..Len(feed) : j # i => calls[j] = 0
              /\ Len(entries) = 1
              /\ entries[1].pos = i

C14_Witness ==
    /\ mode = "last"
    /\ Parsed
    /\ Len(feed) >= 2
    /\ \A i, j \in 1..Len(feed) :
          /\ EmbeddedDate(feed[i]) # 0
          /\ EmbeddedDate(feed[i]) = EmbeddedDate(feed[j]) => i = j
    /\ EmbeddedDate(feed[1]) < EmbeddedDate(feed[Len(feed)])
    /\ calls[Len(feed)] = 1
    /\ calls[1] = 0

\* C15: an entry whose extraction fails (llm gave up, invalid JSON, JSON
\* without a list of records) adds no record and does not stop the run:
\* every entry selected is still called, the records of the others are
\* kept, and the run writes the corpus, in every mode, also when every
\* entry fails.
C15_EntryFailureNeverStopsRun ==
    (/\ xpc = "exit"
     /\ env_key
     /\ \E k \in 1..Len(entries) : Failed(entries[k].pos))
        => /\ \A k \in 1..Len(entries) :
                 LET pos == entries[k].pos
                 IN  /\ calls[pos] = 1
                     /\ Cardinality(RecordsOf(pos))
                           = IF Failed(pos) THEN 0 ELSE Len(feed[pos].answer.items)
           /\ xexc = NoExc
           /\ xexit = 0
           /\ xfile # <<>>
           /\ mode # "new" => Len(xfile[1].rows) = Len(all_content)

\* C16: in mode new with a prior corpus, the file after the run holds the
\* prior rows, unchanged and in their order, followed by exactly the newly
\* extracted rows whose end_date is greater than the greatest prior
\* end_date, in their order; a second run in mode new on the same feed
\* leaves the file as it is.
C16_NewAppendsOnlyNewer ==
    (mode = "new" /\ xpc = "exit" /\ env_key /\ HasRows(xprior)) =>
        LET prior  == xprior[1]
            n      == Len(prior.rows)
            latest == CHOOSE d \in {prior.rows[i]["end_date"] : i \in 1..n} :
                          \A i \in 1..n : prior.rows[i]["end_date"] <= d
            out    == xfile[1]
            want   == SelectSeq(all_content, LAMBDA r : r["end_date"] > latest)
        IN  /\ Len(out.rows) = n + Len(want)
            /\ \A i \in 1..n : Project(out.rows[i], prior.cols) = prior.rows[i]
            /\ \A k \in 1..Len(want) :
                  Project(out.rows[n + k], CorpusCols) = Project(want[k], CorpusCols)
            /\ xruns = 2 => xfile = xprior

C16_Witness ==
    /\ mode = "new"
    /\ xpc = "exit"
    /\ xexit = 0
    /\ xruns = 2
    /\ \E i, j \in 1..Len(xfile[1].rows) :
          /\ xfile[1].rows[i]["link"] = 0
          /\ xfile[1].rows[j]["link"] # 0
    /\ \E k \in 1..Len(all_content) :
          \A i \in 1..Len(xfile[1].rows) :
              xfile[1].rows[i]["link"] # all_content[k]["link"]

\* C17: every record of the DataFrame parse_feed_entries returns has the
\* extracted growth divided by 100 as growth_last_day, null where the
\* growth is null or missing, and the DataFrame has no growth column.
C17_GrowthIsFraction ==
    xpc = "built" =>
        /\ "growth" \notin new_df.cols
        /\ Len(new_df.rows) = Len(all_content)
        /\ \A i \in 1..Len(all_content) :
              LET g == Get(all_content[i], "growth")
                  x == Get(new_df.rows[i], "growth_last_day")
              IN  /\ g = NULL => x = NULL
                  /\ g # NULL => (x # NULL /\ x[1] * g[2] * 100 = g[1] * x[2])

C17_Witness ==
    /\ xpc = "built"
    /\ \E i, j, k \in 1..Len(all_content) :
          /\ "growth" \in DOMAIN all_content[i]
          /\ all_content[i]["growth"] # NULL
          /\ new_df.rows[i]["growth_last_day"] = <<617, 5000>>
          /\ "growth" \in DOMAIN all_content[j]
          /\ all_content[j]["growth"] = NULL
          /\ "growth" \notin DOMAIN all_content[k]

\* C19: one call of llm makes at most 3 attempts, returns the response of
\* the first attempt that succeeds and attempts nothing after it, sleeps 5
\* seconds after every failed attempt but the third, and returns None
\* after the third failed attempt; what one entry's call used up does not
\* change the attempts another entry's call has.
C19_BoundedRetries ==
    \A i \in 1..Len(feed) :
        /\ attempts[i] <= 3
        /\ returned[i] = "no"
              => /\ attempts[i] <= feed[i].fails
                 /\ slept[i] = 5 * attempts[i]
        /\ returned[i] = "response"
              => /\ attempts[i] = feed[i].fails + 1
                 /\ slept[i] = 5 * feed[i].fails
        /\ returned[i] = "None"
              => /\ attempts[i] = 3
                 /\ feed[i].fails >= 3
                 /\ slept[i] = 5 * 2
        /\ calls[i] <= 1

C19_Witness ==
    /\ xpc = "built"
    /\ \E i, j \in 1..Len(feed) :
          /\ returned[i] = "None"
          /\ attempts[i] = 3
          /\ returned[j] = "response"
          /\ attempts[j] = 3
          /\ slept[j] = 10
          /\ entries[1].pos = i

====
